---- MODULE Spec2Model ----
(***************************************************************************)
(* NestShift account export: the Flask endpoint export() with its helper   *)
(* get_user_data() (src/NestShift/app.py) and the two client tools         *)
(* (src/Nestshift-tools/decrypter-tool.py, src/Nestshift-tools/verify.py). *)
(*                                                                         *)
(* Text is a sequence of one-character strings, so that quoting, prefixes, *)
(* path separators and line endings are things the model computes.         *)
(*                                                                         *)
(* Three specifications share the variables:                               *)
(*   Spec        one POST /export request, from the form fields to the     *)
(*               response, as the code runs it;                            *)
(*   SpecDump    get_user_data from the Vikings lookup (line 141) to its   *)
(*               return, entered with the locals the code names;           *)
(*   SpecExport  export() from line 206 on, entered with a non-empty       *)
(*               user_data, followed by the client tools run on the        *)
(*               delivered archive.                                        *)
(* Line 138 unpacks the four-column Users row into three names, which      *)
(* raises for every row: under Spec nothing after line 138 is reachable,   *)
(* which is why the later parts are entered directly by the other two.     *)
(***************************************************************************)
EXTENDS Integers, Sequences, FiniteSets, TLC

VARIABLES
    pc,             \* position of the request in export()/get_user_data()
    username,       \* request.form['username']
    email,          \* request.form['email']
    dbUsers,        \* rows of "Users": sequence of [Id, Username, Email, Password]
    dbTables,       \* the other tables: name -> [kind, rows, fail]
    env,            \* what the gpg subprocesses and the ZIP step will do
    conn,           \* "none" | "open" | "closed": the psycopg2 connection
    tx,             \* "ok" | "aborted": the connection's transaction
    user,           \* cursor.fetchone() of the Users query
    user_id, user_email, user_password, viking_id,   \* locals of get_user_data
    idx,            \* index into tables of the for loop
    sql_dump,       \* the list get_user_data builds
    user_data,      \* what get_user_data returned to export(): None or lines
    exc,            \* the exception in flight, or None
    files,          \* the temporary files that exist: of "sql", "asc", "gpg"
    created,        \* the temporary files this request created
    steps,          \* the gpg steps run so far, in order: [step, result]
    zip_buffer,     \* members written to the ZIP: sequence of [name, data]
    outcome,        \* the response: "PENDING", "ERR400", "ERR500", "DELIVERED", "UNHANDLED"
    archive,        \* the body of a delivered response (ZIP members), else << >>
    dpc, gpg_file, asc_file, output_sql, dresult,    \* decrypter-tool.py
    vpc, vresult                                     \* verify.py

vars == << pc, username, email, dbUsers, dbTables, env, conn, tx, user, user_id,
           user_email, user_password, viking_id, idx, sql_dump, user_data, exc,
           files, created, steps, zip_buffer, outcome, archive,
           dpc, gpg_file, asc_file, output_sql, dresult, vpc, vresult >>

\* Database and Python values, tagged so that NULL/None, integers and text differ
Null == [t |-> "null", n |-> 0, s |-> << >>]
I(n) == [t |-> "int", n |-> n, s |-> << >>]
T(s) == [t |-> "text", n |-> 0, s |-> s]

\* The value None where the code has a list: get_user_data's "return None"
NoData == [none |-> TRUE, lines |-> << >>]
Data(lines) == [none |-> FALSE, lines |-> lines]

----------------------------------------------------------------------------
(* Bounds *)

\* rows per table are sequences of at most MaxRows rows
MaxRows == 2
\* user_data handed to export() has at most MaxLines lines
MaxLines == 2

\* Principal and Aggregate-Root keys: the requester's and another one's
Ids == {1, 2}

----------------------------------------------------------------------------
(* Text *)

QUOTE == "'"
SLASH == "/"
CR == "<CR>"
LF == "<LF>"

RECURSIVE Concat(_)
Concat(ss) == IF ss = << >> THEN << >> ELSE Head(ss) \o Concat(Tail(ss))

EndsWith(s, suffix) ==
    /\ Len(s) >= Len(suffix)
    /\ SubSeq(s, Len(s) - Len(suffix) + 1, Len(s)) = suffix

StartsWith(s, prefix) ==
    /\ Len(s) >= Len(prefix)
    /\ SubSeq(s, 1, Len(prefix)) = prefix

\* str(n) for the small non-negative integers the model uses
Digit(d) == CASE d = 0 -> "0" [] d = 1 -> "1" [] d = 2 -> "2" [] d = 3 -> "3"
              [] d = 4 -> "4" [] d = 5 -> "5" [] d = 6 -> "6" [] d = 7 -> "7"
              [] d = 8 -> "8" [] OTHER -> "9"

RECURSIVE IntStr(_)
IntStr(n) == IF n < 10 THEN << Digit(n) >> ELSE IntStr(n \div 10) \o << Digit(n % 10) >>

\* Python's str(value): text stays, an int is printed in decimal, None is 'None'
PyStr(v) == CASE v.t = "null" -> << "N", "o", "n", "e" >>
              [] v.t = "int" -> IntStr(v.n)
              [] OTHER -> v.s

SeqsUpTo(S, n) == UNION { [1..k -> S] : k \in 0..n }

----------------------------------------------------------------------------
(* The database *)

\* app.py:151-156
tables == << "AchievementPoints", "AchievementTaskState", "Dragons", "GameData",
             "GameDataPairs", "GroupViking", "Groups", "Images", "InventoryItems",
             "MMORoles", "MissionStates", "Neighborhoods", "PairData", "Pairs",
             "Parties", "ProfileAnswers", "RatingRanks", "Ratings", "RoomItems",
             "Rooms", "SavedData", "SceneData", "Sessions", "TaskStatuses",
             "UserBadgesCompleted", "UserMissionData", "Users", "Vikings" >>

TableNames == { tables[i] : i \in 1..Len(tables) }

\* A table's scoping columns: "VikingId", "UserId", "both" or "none"
Kinds == { "VikingId", "UserId", "both", "none" }
\* Where a table's queries fail: nowhere, at SELECT * ... LIMIT 1, at the scoped SELECT
Fails == { "none", "introspect", "select" }

EmptyTable == [kind |-> "none", rows |-> << >>, fail |-> "none"]

\* cursor.description of SELECT * FROM "<table>": the column names, in order
ColumnsOf(table, kind) ==
    LET val == IF table = "Vikings" THEN "Uid" ELSE "Val"
    IN CASE kind = "VikingId" -> << "Id", "VikingId", val >>
         [] kind = "UserId" -> << "Id", "UserId", val >>
         [] kind = "both" -> << "Id", "VikingId", "UserId", val >>
         [] OTHER -> << "Id", val >>

\* One row of SELECT *: the values in column order
RowTuple(table, kind, r) ==
    CASE kind = "VikingId" -> << I(r.Id), I(r.VikingId), r.Val >>
      [] kind = "UserId" -> << I(r.Id), I(r.UserId), r.Val >>
      [] kind = "both" -> << I(r.Id), I(r.VikingId), I(r.UserId), r.Val >>
      [] OTHER -> << I(r.Id), r.Val >>

\* Rows of a table numbered by position: Id is the primary key
WithIds(rs) == [i \in 1..Len(rs) |-> [Id |-> i, VikingId |-> rs[i].VikingId,
                                       UserId |-> rs[i].UserId, Val |-> rs[i].Val]]

\* WHERE "Username" = %s AND "Email" = %s
UserMatches(username_, email_) ==
    SelectSeq(dbUsers, LAMBDA r : r.Username = username_ /\ r.Email = email_)

\* WHERE "UserId" = %s on "Vikings"
VikingsOf(uid) ==
    SelectSeq(dbTables["Vikings"].rows, LAMBDA r : I(r.UserId) = uid)

----------------------------------------------------------------------------
(* The environment of one request *)

\* What a gpg subprocess.run(..., check=True) does: exits 0, exits non-zero
\* (CalledProcessError), or cannot be run at all (OSError, e.g. gpg not on PATH)
GpgResults == { "ok", "nonzero", "oserror" }
\* What reading the .gpg/.asc files and writing the ZIP does
ZipResults == { "ok", "error" }
Envs == [sign : GpgResults, encrypt : GpgResults, zip : ZipResults]
EnvAllOk == [sign |-> "ok", encrypt |-> "ok", zip |-> "ok"]

Names == { << "a" >>, << "o", QUOTE >> }
Emails == { << "x" >>, << "y" >> }

UserCands == [Username : Names, Email : Emails, Password : { T(<< "p" >>) }]
WithUserIds(rs) == [i \in 1..Len(rs) |-> [Id |-> i, Username |-> rs[i].Username,
                        Email |-> rs[i].Email, Password |-> rs[i].Password]]
VikingCands == [VikingId : {0}, UserId : Ids, Val : { T(<< "v" >>) }]

\* The tables of a database whose only populated table is "Vikings"
OnlyVikings(vk) ==
    [t \in TableNames |->
        IF t = "Vikings" THEN [kind |-> "UserId", rows |-> WithIds(vk), fail |-> "none"]
        ELSE EmptyTable]

\* Everything a request has not touched yet
Untouched ==
    /\ conn = "none" /\ tx = "ok" /\ user = << >>
    /\ user_id = Null /\ user_email = Null /\ user_password = Null
    /\ viking_id = Null /\ idx = 0 /\ sql_dump = << >> /\ user_data = NoData
    /\ exc = "None" /\ files = {} /\ created = {} /\ steps = << >>
    /\ zip_buffer = << >> /\ outcome = "PENDING" /\ archive = << >>
    /\ dpc = "idle" /\ gpg_file = << >> /\ asc_file = << >>
    /\ output_sql = << >> /\ dresult = "None"
    /\ vpc = "idle" /\ vresult = "None"

clientVars == << dpc, gpg_file, asc_file, output_sql, dresult, vpc, vresult >>
exportVars == << files, created, steps, zip_buffer, archive >>
dumpVars == << idx, sql_dump, tx >>
inputVars == << username, email, dbUsers, dbTables, env >>

----------------------------------------------------------------------------
(* POST /export up to the identity check: export() 198-204, get_user_data 125-148 *)

\* export(): username/email read from the form, get_user_data called
ExportCall ==
    /\ pc = "received"
    /\ pc' = "connect"
    /\ UNCHANGED << inputVars, conn, user, user_id, user_email, user_password,
                    viking_id, user_data, exc, outcome, dumpVars, exportVars, clientVars >>

\* conn = get_db_connection(); cursor = conn.cursor()
GetDbConnection ==
    /\ pc = "connect"
    /\ conn' = "open"
    /\ pc' = "query_user"
    /\ UNCHANGED << inputVars, user, user_id, user_email, user_password,
                    viking_id, user_data, exc, outcome, dumpVars, exportVars, clientVars >>

\* The row cursor.fetchone() gives for SELECT "Id", "Username", "Email", "Password"
UserRow(r) == << I(r.Id), T(r.Username), T(r.Email), r.Password >>

\* The Users query, fetchone(), and "if not user: return None"
QueryUser ==
    /\ pc = "query_user"
    /\ LET found == UserMatches(username, email)
       IN IF found = << >>
          THEN /\ user' = << >>
               /\ user_data' = NoData
               /\ pc' = "check"
          ELSE /\ user' = UserRow(found[1])
               /\ pc' = "unpack"
               /\ UNCHANGED user_data
    /\ UNCHANGED << inputVars, conn, user_id, user_email, user_password,
                    viking_id, exc, outcome, dumpVars, exportVars, clientVars >>

\* The number of names on the left of "user_id, user_email, user_password = user"
UnpackTargets == 3

\* Tuple unpacking: binds when the lengths agree, raises ValueError otherwise
UnpackUser ==
    /\ pc = "unpack"
    /\ IF Len(user) = UnpackTargets
       THEN /\ user_id' = user[1]
            /\ user_email' = user[2]
            /\ user_password' = user[3]
            /\ pc' = "query_viking"
            /\ UNCHANGED exc
       ELSE /\ exc' = "ValueError"
            /\ pc' = "raised"
            /\ UNCHANGED << user_id, user_email, user_password >>
    /\ UNCHANGED << inputVars, conn, user, viking_id, user_data, outcome,
                    dumpVars, exportVars, clientVars >>

\* "if not user_data: return 'Invalid username or email', 400"
ExportCheck ==
    /\ pc = "check"
    /\ IF user_data.none \/ user_data.lines = << >>
       THEN /\ outcome' = "ERR400"
            /\ pc' = "done"
       ELSE /\ pc' = "join"
            /\ UNCHANGED outcome
    /\ UNCHANGED << inputVars, conn, user, user_id, user_email, user_password,
                    viking_id, user_data, exc, dumpVars, exportVars, clientVars >>

\* An exception no handler of export() catches leaves the view function
Propagate ==
    /\ pc = "raised"
    /\ outcome' = "UNHANDLED"
    /\ pc' = "done"
    /\ UNCHANGED << inputVars, conn, user, user_id, user_email, user_password,
                    viking_id, user_data, exc, dumpVars, exportVars, clientVars >>

Init ==
    /\ pc = "received"
    /\ username \in Names
    /\ email \in Emails
    /\ dbUsers \in { WithUserIds(rs) : rs \in SeqsUpTo(UserCands, MaxRows) }
    /\ dbTables \in { OnlyVikings(vk) : vk \in SeqsUpTo(VikingCands, MaxRows) }
    /\ env \in Envs
    /\ Untouched

\* The actions of lines 141-261 are not disjuncts here: no state of Spec enables
\* them (UnpackReached below), and SpecDump and SpecExport run them.
Next ==
    \/ ExportCall
    \/ GetDbConnection
    \/ QueryUser
    \/ UnpackUser
    \/ ExportCheck
    \/ Propagate

Spec == Init /\ [][Next]_vars

----------------------------------------------------------------------------
(* get_user_data from the Vikings lookup to its return: lines 141-190 *)

\* value.replace("'", "''")
RECURSIVE EscapeQuotes(_)
EscapeQuotes(s) ==
    IF s = << >> THEN << >>
    ELSE (IF Head(s) = QUOTE THEN << QUOTE, QUOTE >> ELSE << Head(s) >>)
         \o EscapeQuotes(Tail(s))

NULLTOKEN == << "N", "U", "L", "L" >>

\* Line 179: "'{0}'".format(str(value).replace("'", "''")) if value is not None else 'NULL'
SqlLiteral(v) ==
    IF v # Null THEN << QUOTE >> \o EscapeQuotes(PyStr(v)) \o << QUOTE >>
    ELSE NULLTOKEN

\* Lines 160-161: '{value}' inside the f-string, the value formatted by str()
LeadLiteral(v) == << QUOTE >> \o PyStr(v) \o << QUOTE >>

\* One element of sql_dump: an INSERT statement (its table, column list, the
\* literals written and the values they were written from) or a comment line
InsertStmt(table, cols, lits, src) ==
    [kind |-> "insert", table |-> table, columns |-> cols, lits |-> lits, src |-> src]
ErrorComment(table) ==
    [kind |-> "comment", table |-> table, columns |-> << >>, lits |-> << >>, src |-> << >>]

\* Line 160
UsersLead(uid, name, mail, pw) ==
    LET src == << uid, T(name), mail, pw >>
    IN InsertStmt("Users", << "Id", "Username", "Email", "Password" >>,
                  [i \in 1..4 |-> LeadLiteral(src[i])], src)

\* Line 161
VikingsLead(vid, uid, name) ==
    LET src == << vid, uid, T(name) >>
    IN InsertStmt("Vikings", << "Id", "UserId", "Uid" >>,
                  [i \in 1..3 |-> LeadLiteral(src[i])], src)

HasColumn(cols, c) == \E i \in 1..Len(cols) : cols[i] = c

\* Lines 168-174: the scoped SELECT; "skip" when the table has neither column
Scope(cols) ==
    IF HasColumn(cols, "VikingId") THEN "VikingId"
    ELSE IF HasColumn(cols, "UserId") THEN "UserId"
    ELSE "skip"

ScopedRows(rows, scope, uid, vid) ==
    IF scope = "VikingId" THEN SelectSeq(rows, LAMBDA r : I(r.VikingId) = vid)
    ELSE SelectSeq(rows, LAMBDA r : I(r.UserId) = uid)

\* Lines 178-180: one INSERT per fetched row
RowStmts(table, kind, rows) ==
    [i \in 1..Len(rows) |->
        LET row == RowTuple(table, kind, rows[i])
        IN InsertStmt(table, ColumnsOf(table, kind),
                      [j \in 1..Len(row) |-> SqlLiteral(row[j])], row)]

\* A statement on a connection whose transaction is aborted fails, as does one
\* the table itself makes fail
IntrospectFails(d, txv) == txv = "aborted" \/ d.fail = "introspect"
SelectFails(d, txv) == txv = "aborted" \/ d.fail = "select"

\* Line 185 left out: the aborted transaction stays aborted
RollbackMissing(txv) == txv

\* conn.rollback(): the transaction can be used again
Rollback(txv) == "ok"

\* Lines 164-185, one pass of the loop body for `table`: what is appended to
\* sql_dump and the transaction's state afterwards
TablePass(table, d, txv, uid, vid) ==
    LET cols == ColumnsOf(table, d.kind)
        scope == Scope(cols)
    IN IF IntrospectFails(d, txv)
       THEN [stmts |-> << ErrorComment(table) >>, tx |-> Rollback("aborted")]
       ELSE IF scope = "skip"
       THEN [stmts |-> << >>, tx |-> txv]
       ELSE IF SelectFails(d, txv)
       THEN [stmts |-> << ErrorComment(table) >>, tx |-> Rollback("aborted")]
       ELSE [stmts |-> RowStmts(table, d.kind, ScopedRows(d.rows, scope, uid, vid)),
             tx |-> txv]

\* Lines 141-147: the Vikings query, "if not viking: return None"
QueryViking ==
    /\ pc = "query_viking"
    /\ LET found == VikingsOf(user_id)
       IN IF found = << >>
          THEN /\ user_data' = NoData
               /\ pc' = "check"
               /\ UNCHANGED viking_id
          ELSE /\ viking_id' = I(found[1].Id)
               /\ pc' = "dump_head"
               /\ UNCHANGED user_data
    /\ UNCHANGED << inputVars, conn, user, user_id, user_email, user_password,
                    exc, outcome, dumpVars, exportVars, clientVars >>

\* Lines 158-161: sql_dump starts with the Users and Vikings statements
DumpHead ==
    /\ pc = "dump_head"
    /\ sql_dump' = << UsersLead(user_id, username, user_email, user_password),
                      VikingsLead(viking_id, user_id, username) >>
    /\ idx' = 1
    /\ pc' = "loop"
    /\ UNCHANGED << inputVars, conn, tx, user, user_id, user_email, user_password,
                    viking_id, user_data, exc, outcome, exportVars, clientVars >>

\* Lines 163-185: the loop body for tables[idx]
ExportTable ==
    /\ pc = "loop"
    /\ idx <= Len(tables)
    /\ LET pass == TablePass(tables[idx], dbTables[tables[idx]], tx, user_id, viking_id)
       IN /\ sql_dump' = sql_dump \o pass.stmts
          /\ tx' = pass.tx
    /\ idx' = idx + 1
    /\ UNCHANGED << pc, inputVars, conn, user, user_id, user_email, user_password,
                    viking_id, user_data, exc, outcome, exportVars, clientVars >>

\* Lines 187-190: cursor.close(); conn.close(); return sql_dump
ReturnDump ==
    /\ pc = "loop"
    /\ idx > Len(tables)
    /\ conn' = "closed"
    /\ user_data' = Data(sql_dump)
    /\ pc' = "check"
    /\ UNCHANGED << inputVars, user, user_id, user_email, user_password,
                    viking_id, exc, outcome, dumpVars, exportVars, clientVars >>

\* The runs of the dump: the Principal's name and password (text or NULL) and
\* the text column of the table rows
Scenarios == { [name |-> << "a" >>, pw |-> T(<< "p" >>), val |-> Null],
               [name |-> << "o", QUOTE >>, pw |-> Null, val |-> T(<< QUOTE >>)] }
RowCands(val) == [VikingId : Ids, UserId : Ids, Val : { val }]

DumpTables(vk, dr, dkind, dfail) ==
    [t \in TableNames |->
        CASE t = "Vikings" -> [kind |-> "UserId", rows |-> WithIds(vk), fail |-> "none"]
          [] t = "Dragons" -> [kind |-> dkind, rows |-> WithIds(dr), fail |-> dfail]
          [] OTHER -> EmptyTable]

\* get_user_data after line 138, the locals bound as their names say: the
\* Users row of Principal 1 was found, its Id, Email and Password are in
\* user_id, user_email and user_password
InitDump ==
    /\ \E p \in Scenarios :
        /\ username = p.name
        /\ user_password = p.pw
        /\ dbUsers = << [Id |-> 1, Username |-> p.name, Email |-> << "x" >>,
                         Password |-> p.pw] >>
        /\ \E vk \in SeqsUpTo(VikingCands, MaxRows), dkind \in Kinds, dfail \in Fails,
              dr \in SeqsUpTo(RowCands(p.val), MaxRows) :
            dbTables = DumpTables(vk, dr, dkind, dfail)
    /\ email = << "x" >>
    /\ user = UserRow(dbUsers[1])
    /\ user_id = I(1)
    /\ user_email = T(<< "x" >>)
    /\ env = EnvAllOk
    /\ pc = "query_viking"
    /\ conn = "open" /\ tx = "ok"
    /\ viking_id = Null /\ idx = 0 /\ sql_dump = << >> /\ user_data = NoData
    /\ exc = "None" /\ files = {} /\ created = {} /\ steps = << >>
    /\ zip_buffer = << >> /\ outcome = "PENDING" /\ archive = << >>
    /\ dpc = "idle" /\ gpg_file = << >> /\ asc_file = << >>
    /\ output_sql = << >> /\ dresult = "None"
    /\ vpc = "idle" /\ vresult = "None"

NextDump ==
    \/ QueryViking
    \/ DumpHead
    \/ ExportTable
    \/ ReturnDump
    \/ ExportCheck

SpecDump == InitDump /\ [][NextDump]_vars

----------------------------------------------------------------------------
(* export() from line 206: the temporary file, gpg, the ZIP, the response *)

\* sep.join(parts)
RECURSIVE JoinText(_, _)
JoinText(parts, sep) ==
    IF parts = << >> THEN << >>
    ELSE IF Len(parts) = 1 THEN parts[1]
    ELSE parts[1] \o sep \o JoinText(Tail(parts), sep)

\* The string an element of sql_dump is (lines 160, 161, 180, 184). The fixed
\* parts of the f-string and the names are single symbols; literals are text.
Render(st) ==
    IF st.kind = "insert"
    THEN << "INSERT INTO ", st.table, " (" >>
         \o JoinText([i \in 1..Len(st.columns) |-> << st.columns[i] >>], << ", " >>)
         \o << ") VALUES (" >> \o JoinText(st.lits, << ", " >>) \o << ");" >>
    ELSE << "-- Error exporting from ", st.table, ": ", "str(e)" >>

\* Line 206: sql_dump = '\n'.join(user_data), the bytes written at line 210
Payload(data) == JoinText([i \in 1..Len(data.lines) |-> Render(data.lines[i])], << LF >>)

\* gpg: a detached signature is valid for exactly the bytes it was made over;
\* a ciphertext decrypts to exactly the bytes it was made from
GpgSign(bytes) == [type |-> "sig", bytes |-> bytes]
GpgEncrypt(bytes) == [type |-> "enc", bytes |-> bytes]
GpgDecrypt(blob) == blob.bytes
GpgVerify(sig, bytes) == sig.type = "sig" /\ sig.bytes = bytes

\* Lines 234, 237, 250: the names derived from the requester's username
GpgMember(name) == name \o << "_account_export", ".sql", ".gpg" >>
AscMember(name) == name \o << "_account_export", ".sql", ".asc" >>

TempFiles == { "sql", "asc", "gpg" }

\* Lines 209-215: the NamedTemporaryFile(delete=False) is created and written
WriteTempFile ==
    /\ pc = "join"
    /\ files' = files \cup { "sql" }
    /\ created' = created \cup { "sql" }
    /\ pc' = "sign"
    /\ UNCHANGED << inputVars, conn, user, user_id, user_email, user_password,
                    viking_id, user_data, exc, outcome, dumpVars, steps, zip_buffer,
                    archive, clientVars >>

\* subprocess.run(..., check=True) without the check: a non-zero exit goes on
RunUnchecked(r, next) ==
    IF r = "oserror" THEN [pc |-> "raised", exc |-> "OSError"]
    ELSE [pc |-> next, exc |-> "None"]

\* subprocess.run(..., check=True): where control goes and what is raised
RunChecked(r, next) ==
    CASE r = "ok" -> [pc |-> next, exc |-> "None"]
      [] r = "nonzero" -> [pc |-> "gpg_failed", exc |-> "CalledProcessError"]
      [] OTHER -> [pc |-> "raised", exc |-> "OSError"]

\* Lines 218-221: gpg --detach-sign writes sig_path
Sign ==
    /\ pc = "sign"
    /\ steps' = Append(steps, [step |-> "sign", result |-> env.sign])
    /\ LET to == RunChecked(env.sign, "encrypt")
       IN /\ pc' = to.pc
          /\ exc' = to.exc
    /\ IF env.sign = "ok"
       THEN /\ files' = files \cup { "asc" }
            /\ created' = created \cup { "asc" }
       ELSE UNCHANGED << files, created >>
    /\ UNCHANGED << inputVars, conn, user, user_id, user_email, user_password,
                    viking_id, user_data, outcome, dumpVars, zip_buffer, archive,
                    clientVars >>

\* Lines 224-227: gpg --encrypt writes enc_path
Encrypt ==
    /\ pc = "encrypt"
    /\ steps' = Append(steps, [step |-> "encrypt", result |-> env.encrypt])
    /\ LET to == RunChecked(env.encrypt, "zip")
       IN /\ pc' = to.pc
          /\ exc' = to.exc
    /\ IF env.encrypt = "ok"
       THEN /\ files' = files \cup { "gpg" }
            /\ created' = created \cup { "gpg" }
       ELSE UNCHANGED << files, created >>
    /\ UNCHANGED << inputVars, conn, user, user_id, user_email, user_password,
                    viking_id, user_data, outcome, dumpVars, zip_buffer, archive,
                    clientVars >>

\* Lines 230-240: enc_path and sig_path are read and written into the ZIP;
\* a file that is not there, or a failing read or write, raises
Zip ==
    /\ pc = "zip"
    /\ IF env.zip = "ok" /\ { "gpg", "asc" } \subseteq files
       THEN /\ zip_buffer' =
                 << [name |-> GpgMember(username), data |-> GpgEncrypt(Payload(user_data))],
                    [name |-> AscMember(username), data |-> GpgSign(Payload(user_data))] >>
            /\ pc' = "cleanup"
            /\ UNCHANGED exc
       ELSE /\ exc' = "Exception"
            /\ pc' = "raised"
            /\ UNCHANGED zip_buffer
    /\ UNCHANGED << inputVars, conn, user, user_id, user_email, user_password,
                    viking_id, user_data, outcome, dumpVars, files, created, steps,
                    archive, clientVars >>

\* Lines 243-252: the three os.unlink calls, then send_file(zip_buffer, ...)
CleanupAndSend ==
    /\ pc = "cleanup"
    /\ files' = files \ TempFiles
    /\ archive' = zip_buffer
    /\ outcome' = "DELIVERED"
    /\ pc' = "done"
    /\ UNCHANGED << inputVars, conn, user, user_id, user_email, user_password,
                    viking_id, user_data, exc, dumpVars, created, steps, zip_buffer,
                    clientVars >>

\* Lines 254-261: except subprocess.CalledProcessError
HandleGpgError ==
    /\ pc = "gpg_failed"
    /\ files' = (files \ { "sql" }) \ { f \in { "asc", "gpg" } : f \in files }
    /\ outcome' = "ERR500"
    /\ pc' = "done"
    /\ UNCHANGED << inputVars, conn, user, user_id, user_email, user_password,
                    viking_id, user_data, exc, dumpVars, created, steps, zip_buffer,
                    archive, clientVars >>

\* The status code of the response; Flask answers an exception that leaves
\* the view function with 500
HttpStatus(o) ==
    CASE o = "DELIVERED" -> 200
      [] o = "ERR400" -> 400
      [] o \in { "ERR500", "UNHANDLED" } -> 500
      [] OTHER -> 0

----------------------------------------------------------------------------
(* The client tools, run on a delivered archive *)

\* The last name of a list that ends with the suffix, or << >> for None
RECURSIVE LastEndingWith(_, _)
LastEndingWith(names, suffix) ==
    IF names = << >> THEN << >>
    ELSE IF EndsWith(names[Len(names)], suffix) THEN names[Len(names)]
    ELSE LastEndingWith(SubSeq(names, 1, Len(names) - 1), suffix)

NameList(arch) == [i \in 1..Len(arch) |-> arch[i].name]
\* The content of the file a member name was extracted to
DataOf(arch, name) == arch[CHOOSE i \in 1..Len(arch) : arch[i].name = name].data

\* decrypter-tool.py 107-114: the loop over extracted_files; the .sql.asc
\* test is an elif of the .sql.gpg test
FindGpg(arch) == LastEndingWith(NameList(arch), << ".sql", ".gpg" >>)
FindAsc(arch) == LastEndingWith(NameList(arch), << ".sql", ".asc" >>)

\* os.path.basename: what follows the last separator
RECURSIVE BaseName(_)
BaseName(path) ==
    IF \E i \in 1..Len(path) : path[i] = SLASH
    THEN BaseName(SubSeq(path, (CHOOSE i \in 1..Len(path) : path[i] = SLASH) + 1, Len(path)))
    ELSE path

\* The entry of the extraction directory a member ends up under: its first
\* path component
TopLevel(path) ==
    IF \E i \in 1..Len(path) : path[i] = SLASH
    THEN LET first == CHOOSE i \in 1..Len(path) :
                          path[i] = SLASH /\ \A j \in 1..(i - 1) : path[j] # SLASH
         IN SubSeq(path, 1, first - 1)
    ELSE path

\* decrypter-tool.py 72-77: content.replace('\r\n', '\n'), read and written
\* without newline translation: every CR that an LF follows is dropped
NormalizeLineEndings(bytes) ==
    LET keep == { i \in 1..Len(bytes) :
                    ~(bytes[i] = CR /\ i < Len(bytes) /\ bytes[i + 1] = LF) }
        nth(k) == CHOOSE i \in keep : Cardinality({ j \in keep : j <= i }) = k
    IN [k \in 1..Cardinality(keep) |-> bytes[nth(k)]]

\* decrypter-tool.py 96-118: extract, find the two members, stop if one is missing
DecExtract ==
    /\ dpc = "idle"
    /\ outcome = "DELIVERED"
    /\ gpg_file' = FindGpg(archive)
    /\ asc_file' = FindAsc(archive)
    /\ IF FindGpg(archive) = << >> \/ FindAsc(archive) = << >>
       THEN /\ dresult' = "missing"
            /\ dpc' = "done"
       ELSE /\ dpc' = "decrypt"
            /\ UNCHANGED dresult
    /\ UNCHANGED << pc, inputVars, conn, user, user_id, user_email, user_password,
                    viking_id, user_data, exc, outcome, dumpVars, exportVars,
                    output_sql, vpc, vresult >>

\* decrypter-tool.py 135-155: decrypt to output_sql, then normalize_line_endings
DecDecrypt ==
    /\ dpc = "decrypt"
    /\ LET blob == DataOf(archive, gpg_file)
       IN IF blob.type = "enc"
          THEN /\ output_sql' = NormalizeLineEndings(GpgDecrypt(blob))
               /\ dpc' = "verify"
               /\ UNCHANGED dresult
          ELSE /\ dresult' = "decrypt_failed"
               /\ dpc' = "done"
               /\ UNCHANGED output_sql
    /\ UNCHANGED << pc, inputVars, conn, user, user_id, user_email, user_password,
                    viking_id, user_data, exc, outcome, dumpVars, exportVars,
                    gpg_file, asc_file, vpc, vresult >>

\* decrypter-tool.py 157-168: gpg --verify asc_file output_sql
DecVerify ==
    /\ dpc = "verify"
    /\ dresult' = IF GpgVerify(DataOf(archive, asc_file), output_sql)
                  THEN "valid" ELSE "invalid"
    /\ dpc' = "done"
    /\ UNCHANGED << pc, inputVars, conn, user, user_id, user_email, user_password,
                    viking_id, user_data, exc, outcome, dumpVars, exportVars,
                    gpg_file, asc_file, output_sql, vpc, vresult >>

\* verify.py 29-35: the entries of the extraction directory with each suffix
FindBySuffix(arch, suffix) ==
    { e \in { TopLevel(arch[i].name) : i \in 1..Len(arch) } : EndsWith(e, suffix) }

\* verify.py 25-44: "missing" is the return False of line 39
VerifyZip(arch) ==
    LET json == FindBySuffix(arch, << ".json" >>)
        asc == FindBySuffix(arch, << ".asc" >>)
    IN IF json = {} \/ asc = {} THEN "missing"
       ELSE IF GpgVerify(DataOf(arch, CHOOSE a \in asc : TRUE),
                         DataOf(arch, CHOOSE j \in json : TRUE).bytes)
       THEN "valid" ELSE "invalid"

\* verify.py 18-44: verify_zip_signature on the archive
VerifyZipSignature ==
    /\ vpc = "idle"
    /\ outcome = "DELIVERED"
    /\ vresult' = VerifyZip(archive)
    /\ vpc' = "done"
    /\ UNCHANGED << pc, inputVars, conn, user, user_id, user_email, user_password,
                    viking_id, user_data, exc, outcome, dumpVars, exportVars,
                    dpc, gpg_file, asc_file, output_sql, dresult >>

\* The usernames of the export runs: plain, and with a path separator
ExportNames == { << "a" >>, << "a", SLASH, "b" >> }
\* The text column of the rows in the dumps handed to export()
ExportVals == { T(<< "v" >>), T(<< "w", CR, LF >>) }
ExportRows == [VikingId : {1}, UserId : {1}, Val : ExportVals]

\* A dump as get_user_data builds it for Principal 1 with Aggregate Root 1
DumpOf(name, rows) ==
    << UsersLead(I(1), name, T(<< "x" >>), T(<< "p" >>)), VikingsLead(I(1), I(1), name) >>
    \o RowStmts("Dragons", "VikingId", WithIds(rows))

\* export() at line 203, get_user_data having returned a dump
InitExport ==
    /\ username \in ExportNames
    /\ email = << "x" >>
    /\ dbUsers = << [Id |-> 1, Username |-> username, Email |-> << "x" >>,
                     Password |-> T(<< "p" >>)] >>
    /\ user = UserRow(dbUsers[1])
    /\ user_id = I(1) /\ user_email = T(<< "x" >>) /\ user_password = T(<< "p" >>)
    /\ viking_id = I(1)
    /\ \E rows \in SeqsUpTo(ExportRows, MaxLines) :
        /\ dbTables = DumpTables(<< [VikingId |-> 0, UserId |-> 1, Val |-> T(<< "v" >>)] >>,
                                 rows, "VikingId", "none")
        /\ sql_dump = DumpOf(username, rows)
    /\ user_data = Data(sql_dump)
    /\ env \in Envs
    /\ pc = "check"
    /\ conn = "closed" /\ tx = "ok" /\ idx = Len(tables) + 1
    /\ exc = "None" /\ files = {} /\ created = {} /\ steps = << >>
    /\ zip_buffer = << >> /\ outcome = "PENDING" /\ archive = << >>
    /\ dpc = "idle" /\ gpg_file = << >> /\ asc_file = << >>
    /\ output_sql = << >> /\ dresult = "None"
    /\ vpc = "idle" /\ vresult = "None"

NextExport ==
    \/ ExportCheck
    \/ WriteTempFile
    \/ Sign
    \/ Encrypt
    \/ Zip
    \/ CleanupAndSend
    \/ HandleGpgError
    \/ Propagate
    \/ DecExtract
    \/ DecDecrypt
    \/ DecVerify
    \/ VerifyZipSignature

SpecExport == InitExport /\ [][NextExport]_vars

----------------------------------------------------------------------------
(* Claims *)

\* The Users row the request resolves to (fetchone() of the Users query), if any
Resolved == UserMatches(username, email)
HasUser == Resolved # << >>
HasViking == HasUser /\ VikingsOf(I(Resolved[1].Id)) # << >>

\* Under Spec every request that finds a Users row raises at line 138, so
\* nothing from line 141 on runs.
UnpackReached == pc \in { "received", "connect", "query_user", "unpack", "check",
                          "raised", "done" }
FoundUserRaises == (pc = "done" /\ HasUser) => (outcome = "UNHANDLED" /\ exc = "ValueError")
NoUserIs400 == (pc = "done" /\ ~HasUser) => (outcome = "ERR400" /\ created = {})

\* C2: a (username, email) pair that matches no Users row, or a Users row
\* without a Vikings row, makes get_user_data return None and export() answer
\* 400, with no archive and no temporary file.
C2_InvalidPairIs400 ==
    (pc = "done" /\ ~HasViking) =>
        /\ user_data = NoData
        /\ outcome = "ERR400"
        /\ archive = << >>
        /\ created = {}

\* C3: a request whose pair matches a Users row with a Vikings row, and whose
\* sign, encrypt and ZIP steps all succeed, ends DELIVERED.
C3_ValidRequestDelivered ==
    (pc = "done" /\ HasViking /\ env = EnvAllOk) => outcome = "DELIVERED"

----------------------------------------------------------------------------
(* Claims about the dump (SpecDump) *)

\* get_user_data has returned its dump
DumpReturned == pc \in { "check", "join" } /\ ~user_data.none

\* The rows the scoping rule selects from table t for Principal user_id and
\* Aggregate Root viking_id: by VikingId when the table has that column,
\* otherwise by UserId when it has that one, otherwise none
ScopedBy(t) ==
    LET d == dbTables[t]
    IN IF d.kind \in { "VikingId", "both" }
       THEN SelectSeq(d.rows, LAMBDA r : I(r.VikingId) = viking_id)
       ELSE IF d.kind = "UserId"
       THEN SelectSeq(d.rows, LAMBDA r : I(r.UserId) = user_id)
       ELSE << >>
ScopedTuples(t) ==
    [i \in 1..Len(ScopedBy(t)) |-> RowTuple(t, dbTables[t].kind, ScopedBy(t)[i])]

\* The values of the INSERT statements for table t in a list of statements
InsertedInto(stmts, t) ==
    LET ins == SelectSeq(stmts, LAMBDA st : st.kind = "insert" /\ st.table = t)
    IN [i \in 1..Len(ins) |-> ins[i].src]
CommentsOn(stmts, t) ==
    SelectSeq(stmts, LAMBDA st : st.kind = "comment" /\ st.table = t)

\* A query on table t fails
QueryFails(t) ==
    \/ dbTables[t].fail = "introspect"
    \/ dbTables[t].fail = "select" /\ dbTables[t].kind # "none"
NoQueryFails == \A t \in TableNames : ~QueryFails(t)

LoopPart(stmts) == SubSeq(stmts, 3, Len(stmts))
ScopedRowsInLoop ==
    (DumpReturned /\ NoQueryFails) =>
        \A t \in TableNames : InsertedInto(LoopPart(user_data.lines), t) = ScopedTuples(t)

\* What a table contributes to the dump when the claim holds
ExpectedFor(t) ==
    IF QueryFails(t) THEN << ErrorComment(t) >>
    ELSE RowStmts(t, dbTables[t].kind, ScopedBy(t))

\* C7: a query failure on one table does not abort the export: the failing
\* table gets exactly one error comment, the transaction is rolled back, and
\* every table is exported in list order, the non-failing ones with the rows
\* they have in a run without failures.
C7_FailureIsAbsorbed ==
    /\ (pc = "loop" /\ idx >= 1) =>
        /\ tx = "ok"
        /\ LoopPart(sql_dump) = Concat([i \in 1..(idx - 1) |-> ExpectedFor(tables[i])])
    /\ DumpReturned =>
        /\ LoopPart(user_data.lines) = Concat([i \in 1..Len(tables) |-> ExpectedFor(tables[i])])
        /\ \A t \in TableNames :
              Len(CommentsOn(user_data.lines, t)) = (IF QueryFails(t) THEN 1 ELSE 0)

\* A dump was returned although the query on "Dragons" failed, and the later
\* table "Vikings" still contributed its rows
C7_Witness ==
    /\ DumpReturned
    /\ QueryFails("Dragons")
    /\ CommentsOn(user_data.lines, "Dragons") = << ErrorComment("Dragons") >>
    /\ InsertedInto(LoopPart(user_data.lines), "Vikings") # << >>

\* Reading an SQL string literal back: the text between the quotes, two
\* quotes read as one; the bare token NULL is the NULL value
Malformed == [t |-> "malformed", n |-> 0, s |-> << >>]
RECURSIVE ScanBody(_)
ScanBody(s) ==
    IF s = << >> THEN [ok |-> FALSE, text |-> << >>]
    ELSE IF Head(s) = QUOTE
    THEN IF Len(s) >= 2 /\ s[2] = QUOTE
         THEN LET r == ScanBody(SubSeq(s, 3, Len(s)))
              IN [ok |-> r.ok, text |-> << QUOTE >> \o r.text]
         ELSE [ok |-> Len(s) = 1, text |-> << >>]
    ELSE LET r == ScanBody(Tail(s))
         IN [ok |-> r.ok, text |-> << Head(s) >> \o r.text]
ParseSqlLiteral(lit) ==
    IF lit = NULLTOKEN THEN Null
    ELSE IF lit # << >> /\ lit[1] = QUOTE
    THEN LET r == ScanBody(Tail(lit)) IN IF r.ok THEN T(r.text) ELSE Malformed
    ELSE Malformed

RoundTrips(st) ==
    \A i \in 1..Len(st.src) :
        st.src[i].t \in { "text", "null" } => ParseSqlLiteral(st.lits[i]) = st.src[i]

RowLiteralsRoundTrip ==
    \A k \in 3..Len(sql_dump) : RoundTrips(sql_dump[k])
\* Line 179 on its own: text with quotes, the empty text, the text NULL and NULL
LiteralTexts == { << >>, << QUOTE >>, << "a", QUOTE, QUOTE, "b" >>, NULLTOKEN }
SqlLiteralRoundTrips ==
    /\ \A x \in LiteralTexts : ParseSqlLiteral(SqlLiteral(T(x))) = T(x)
    /\ ParseSqlLiteral(SqlLiteral(Null)) = Null

----------------------------------------------------------------------------
(* Claims about export() and the client tools (SpecExport) *)

Failed(step) == \E i \in 1..Len(steps) : steps[i].step = step /\ steps[i].result # "ok"
Ran(step) == \E i \in 1..Len(steps) : steps[i].step = step

CleanupOnHandledExits ==
    (pc = "done" /\ outcome \in { "DELIVERED", "ERR500" }) => files \cap created = {}

\* C5: an archive is delivered only after the sign step and then the encrypt
\* step of the request both succeeded; a failed sign step means the encrypt
\* step is not run; a failed step ends the request in a 500 without an archive.
C5_SignedAndEncryptedOrNothing ==
    /\ outcome = "DELIVERED" =>
        /\ steps = << [step |-> "sign", result |-> "ok"],
                      [step |-> "encrypt", result |-> "ok"] >>
        /\ archive # << >>
    /\ Ran("encrypt") =>
        /\ steps[1] = [step |-> "sign", result |-> "ok"]
        /\ steps[2].step = "encrypt"
        /\ Len(steps) = 2
    /\ Failed("sign") => ~Ran("encrypt") /\ pc \notin { "encrypt", "zip", "cleanup" }
    /\ (Failed("sign") \/ Failed("encrypt")) =>
        /\ archive = << >>
        /\ zip_buffer = << >>
        /\ outcome \in { "PENDING", "ERR500", "UNHANDLED" }
        /\ pc = "done" => HttpStatus(outcome) = 500
        /\ (pc = "done" /\ exc = "CalledProcessError") => outcome = "ERR500"

\* The request is over after the encrypt step failed although the sign step succeeded
C5_Witness ==
    /\ pc = "done"
    /\ steps = << [step |-> "sign", result |-> "ok"],
                  [step |-> "encrypt", result |-> "nonzero"] >>
    /\ outcome = "ERR500"

IsSignature(m) == EndsWith(m.name, << ".asc" >>) /\ m.data.type = "sig"
IsPayload(m) == EndsWith(m.name, << ".gpg" >>) /\ m.data.type = "enc"

MembersPrefixedByUser ==
    outcome = "DELIVERED" =>
        /\ Len(archive) = 2
        /\ Cardinality({ i \in 1..Len(archive) : IsSignature(archive[i]) }) = 1
        /\ Cardinality({ i \in 1..Len(archive) : IsPayload(archive[i]) }) = 1
        /\ \A i \in 1..Len(archive) : StartsWith(archive[i].name, username)

HasCRLF(bytes) == \E i \in 1..(Len(bytes) - 1) : bytes[i] = CR /\ bytes[i + 1] = LF
RoundTripWithoutCRLF ==
    (dpc = "done" /\ ~HasCRLF(Payload(user_data))) => dresult = "valid"

DecrypterFindsBothMembers == dpc # "idle" => (gpg_file # << >> /\ asc_file # << >> /\ dresult # "missing")

----------------------------------------------------------------------------
(* Claims about the database connection (Spec, SpecDump) *)

\* get_user_data has returned to export() or raised
CallOver == pc \in { "check", "join", "raised", "done" }

\* C11: every call of get_user_data closes the connection it opened before it
\* returns, on every return path (user not found, Viking not found, dump
\* returned), so a completed request leaves no connection open.
C11_ConnectionClosedOnReturn ==
    /\ CallOver => conn # "open"
    /\ pc = "done" => conn = "closed"

\* What C11 says, of the return at line 190 alone
ClosedWhenDumpReturned == (CallOver /\ ~user_data.none) => conn = "closed"
\* The two "return None" paths and the exception of line 138 leave it open
OpenWhenNoDumpReturned == (CallOver /\ user_data.none) => conn = "open"

====
